---------------------------- MODULE Spec2Model ----------------------------
(***************************************************************************)
(* BrewCap: the SMC client library (BrewCap/smc.c) and the standalone      *)
(* diagnostic tool (BrewCap/Resources/smc_tool.c).                         *)
(*                                                                         *)
(* A C string is the tuple of its bytes (0..255) with the terminating 0.   *)
(* A 32-bit unsigned value is the pair <<hi, lo>> of its 16-bit halves, so *)
(* that shifts and additions wrap at 2^32 as they do in C.                 *)
(***************************************************************************)
EXTENDS Integers, Sequences, FiniteSets, TLC

VARIABLES
  g_smc_conn,   \* smc.c: the process-wide connection handle (0: none)
  kernel,       \* IOKit side: connections handed out and IOServiceClose counts
  smc,          \* the controller: key id -> key info and stored value
  calls,        \* the IOKit calls the last operation issued, in order
  attempts,     \* set_battery_property / smc_write_key invocations of the last operation
  op,           \* the last operation: its name, arguments and return value
  out_bytes,    \* the caller's output buffer after the last operation
  out_size,     \* the caller's *out_size after the last operation
  lastWrite,    \* history: the successful smc_write_key the caller made just before, if any
  pc,           \* the caller: "ready" to call, or "returned" from the last operation
  g_conn,       \* smc_tool.c: the tool's connection handle
  val,          \* smc_tool.c: main's SMCVal_t val
  printed,      \* smc_tool.c: what main wrote to stdout
  str,          \* codec: the input string
  code,         \* codec: its 32-bit encodings
  decoded       \* codec: the decoded strings

libVars   == <<g_smc_conn, kernel, smc, calls, attempts, op, out_bytes, out_size, lastWrite, pc>>
toolVars  == <<g_conn, val, printed>>
codecVars == <<str, code, decoded>>
vars      == <<libVars, toolVars, codecVars>>

---------------------------------------------------------------------------
(* Bounds *)

\* declared sizes and write sizes 0..MaxSmall are explored
MaxSmall == 1
\* declared sizes and write sizes up to SMC_BYTES + MaxOver are explored
MaxOver == 1
\* connections IOServiceOpen hands out in one behaviour
MaxOpens == 2

---------------------------------------------------------------------------
(* Program constants *)

SMC_CMD_READ_BYTES   == 5
SMC_CMD_WRITE_BYTES  == 6
SMC_CMD_READ_KEYINFO == 9
\* uint8_t bytes[32] / SMCBytes_t
SMC_BYTES == 32

Min(a, b) == IF a < b THEN a ELSE b

Zeros(n) == SubSeq(<<0, 0, 0, 0, 0, 0, 0, 0, 0, 0, 0, 0, 0, 0, 0, 0, 0, 0, 0, 0,
                      0, 0, 0, 0, 0, 0, 0, 0, 0, 0, 0, 0, 0, 0, 0, 0, 0, 0, 0, 0>>, 1, n)

---------------------------------------------------------------------------
(* Binary codec *)

U32Zero == <<0, 0>>

\* x << 8 on a uint32
Shl8(x) == <<(x[1] % 256) * 256 + (x[2] \div 256), (x[2] % 256) * 256>>

RECURSIVE Shl(_, _)
\* x << (8 * n) on a uint32
Shl(x, n) == IF n = 0 THEN x ELSE Shl(Shl8(x), n - 1)

\* x | c where the low byte of x is 0
OrByte(x, c) == <<x[1], x[2] + c>>

\* a + b on uint32
Add32(a, b) ==
  LET lo == a[2] + b[2]
      hi == a[1] + b[1] + (lo \div 65536)
  IN  <<hi % 65536, lo % 65536>>

RECURSIVE fcc_loop(_, _, _)
fcc_loop(key, i, result) ==
  IF i < 4 /\ key[i + 1] # 0
    THEN fcc_loop(key, i + 1, OrByte(Shl8(result), key[i + 1]))
    ELSE result

\* smc.c four_char_code
four_char_code(key) == fcc_loop(key, 0, U32Zero)

\* (unsigned int)(c - '0') for a char c (signed on the target)
DigitOf(c) ==
  LET sc == IF c >= 128 THEN c - 256 ELSE c
      v  == sc - 48
  IN  IF v >= 0 THEN <<0, v>> ELSE <<65535, 65536 + v>>

RECURSIVE strtoul_loop(_, _, _, _, _)
strtoul_loop(s, size, base, i, total) ==
  IF i < size
    THEN strtoul_loop(s, size, base, i + 1,
           Add32(total, Shl(IF base = 16 THEN <<0, s[i + 1]>> ELSE DigitOf(s[i + 1]),
                            size - 1 - i)))
    ELSE total

\* smc_tool.c _strtoul
_strtoul(s, size, base) == strtoul_loop(s, size, base, 0, U32Zero)

\* _ultostr storing the least significant byte first
_ultostr_lsb_first(v) == <<v[2] % 256, v[2] \div 256, v[1] % 256, v[1] \div 256, 0>>

\* smc_tool.c _ultostr: the bytes of the 5-char result
_ultostr(v) == <<v[1] \div 256, v[1] % 256, v[2] \div 256, v[2] % 256, 0>>

---------------------------------------------------------------------------
(* Strings of the program, as C strings *)

CStr(s) ==
  CASE s = "CH0B" -> <<67, 72, 48, 66, 0>>
    [] s = "CH0I" -> <<67, 72, 48, 73, 0>>
    [] s = "BCLM" -> <<66, 67, 76, 77, 0>>
    [] OTHER      -> <<0>>

KeyNames == {"CH0B", "CH0I", "BCLM"}

\* CoreFoundation values handed to the registry
kCFBooleanTrue  == [type |-> "CFBoolean", v |-> 1]
kCFBooleanFalse == [type |-> "CFBoolean", v |-> 0]
CFNumberSInt32(n) == [type |-> "SInt32", v |-> n]
NoValue == [type |-> "", v |-> 0]

---------------------------------------------------------------------------
(* SMCParamStruct and the IOKit side *)

ZeroKeyInfo == [dataSize |-> 0, dataType |-> U32Zero, dataAttributes |-> 0]

\* memset(&s, 0, sizeof(s)): the fields the program sets or reads
ZeroParam == [key |-> U32Zero, keyInfo |-> ZeroKeyInfo, data8 |-> 0, bytes |-> Zeros(SMC_BYTES)]

\* one logged IOKit call
NoReq == <<>>

CallRec(fn, obj, name, req, value, ok) ==
  [fn |-> fn, obj |-> obj, name |-> name, req |-> req, value |-> value, ok |-> ok]

\* the connection handle names a connection that IOServiceOpen made and
\* IOServiceClose has not released
ConnOpen(k, conn) == conn # 0 /\ conn <= Len(k.released) /\ k.released[conn] = 0

\* the controller's answer to one request, and its store afterwards
Controller(store, in_s) ==
  LET e == store[in_s.key]
      n == Min(in_s.keyInfo.dataSize, SMC_BYTES)
  IN  CASE in_s.data8 = SMC_CMD_READ_KEYINFO ->
             [store |-> store, out |-> [ZeroParam EXCEPT !.keyInfo = e.info]]
        [] in_s.data8 = SMC_CMD_READ_BYTES ->
             [store |-> store, out |-> [ZeroParam EXCEPT !.bytes = e.bytes]]
        [] in_s.data8 = SMC_CMD_WRITE_BYTES ->
             [store |-> [store EXCEPT ![in_s.key].bytes =
                           SubSeq(in_s.bytes, 1, n) \o Zeros(SMC_BYTES - n)],
              out |-> ZeroParam]
        [] OTHER -> [store |-> store, out |-> ZeroParam]

\* smc.c smc_call: IOConnectCallStructMethod(g_smc_conn, KERNEL_INDEX_SMC, ...).
\* envOk is the transport's verdict; a call on no open connection fails.
smc_call(w, in_s, envOk) ==
  LET ok == envOk /\ ConnOpen(w.kernel, w.g_smc_conn) /\ in_s.key \in DOMAIN w.smc
      c  == IF ok THEN Controller(w.smc, in_s) ELSE [store |-> w.smc, out |-> ZeroParam]
  IN  [w |-> [w EXCEPT !.smc = c.store,
                       !.calls = Append(@, CallRec("IOConnectCallStructMethod", w.g_smc_conn,
                                                   "", in_s, NoValue, ok))],
       status |-> IF ok THEN 0 ELSE 1,
       out_s |-> c.out]

\* smc_read_key_info going on with a zeroed KeyInfo when the call fails
smc_read_key_info_unchecked(w, key, envOk) ==
  LET in_s == [ZeroParam EXCEPT !.key = key, !.data8 = SMC_CMD_READ_KEYINFO]
      r    == smc_call(w, in_s, envOk)
  IN  [w |-> r.w, ret |-> 0, info |-> r.out_s.keyInfo]

\* smc.c smc_read_key_info
smc_read_key_info(w, key, envOk) ==
  LET in_s == [ZeroParam EXCEPT !.key = key, !.data8 = SMC_CMD_READ_KEYINFO]
      r    == smc_call(w, in_s, envOk)
  IN  IF r.status # 0
        THEN [w |-> r.w, ret |-> -1, info |-> ZeroKeyInfo]
        ELSE [w |-> r.w, ret |-> 0, info |-> r.out_s.keyInfo]

---------------------------------------------------------------------------
(* smc.c: public API.  Each operator takes the program state w and gives   *)
(* the state after the call, its return value in w.ret.                    *)

\* what the environment does to one registry attempt
RegEnv == {"notfound", "reject", "accept"}
\* what the transport does to the two calls of one key access
SmcEnv == {"infofail", "datafail", "ok"}
\* what IOKit does to one smc_open
OpenEnv == {"notfound", "reject_keep", "reject_zero", "accept"}

\* one logged attempt of a charging-control method
AttemptRec(fn, name, value, bytes, size, ret) ==
  [fn |-> fn, name |-> name, value |-> value, bytes |-> bytes, size |-> size, ret |-> ret]

\* set_battery_property returning without IOObjectRelease when the set fails
set_battery_property_leaks(w, key, value, e) ==
  LET service == IF e = "notfound" THEN 0 ELSE Len(w.calls) + 1
      c1 == Append(w.calls, CallRec("IOServiceGetMatchingService", service,
                                    "AppleSmartBattery", NoReq, NoValue, service # 0))
      c2 == Append(c1, CallRec("IORegistryEntrySetCFProperty", service, key,
                               NoReq, value, e = "accept"))
      c3 == Append(c2, CallRec("IOObjectRelease", service, "", NoReq, NoValue, TRUE))
  IN  IF service = 0
        THEN [w EXCEPT !.calls = c1, !.ret = -1,
                       !.attempts = Append(@, AttemptRec("set_battery_property", key, value,
                                                         <<>>, 0, -1))]
      ELSE IF e # "accept"
        THEN [w EXCEPT !.calls = c2, !.ret = -1,
                       !.attempts = Append(@, AttemptRec("set_battery_property", key, value,
                                                         <<>>, 0, -1))]
        ELSE [w EXCEPT !.calls = c3, !.ret = 0,
                       !.attempts = Append(@, AttemptRec("set_battery_property", key, value,
                                                         <<>>, 0, 0))]

\* smc.c set_battery_property
set_battery_property(w, key, value, e) ==
  LET service == IF e = "notfound" THEN 0 ELSE Len(w.calls) + 1
      c1 == Append(w.calls, CallRec("IOServiceGetMatchingService", service,
                                    "AppleSmartBattery", NoReq, NoValue, service # 0))
      c2 == Append(c1, CallRec("IORegistryEntrySetCFProperty", service, key,
                               NoReq, value, e = "accept"))
      c3 == Append(c2, CallRec("IOObjectRelease", service, "", NoReq, NoValue, TRUE))
      ret == IF e = "accept" THEN 0 ELSE -1
  IN  IF service = 0
        THEN [w EXCEPT !.calls = c1, !.ret = -1,
                       !.attempts = Append(@, AttemptRec("set_battery_property", key, value,
                                                         <<>>, 0, -1))]
        ELSE [w EXCEPT !.calls = c3, !.ret = ret,
                       !.attempts = Append(@, AttemptRec("set_battery_property", key, value,
                                                         <<>>, 0, ret))]

\* smc.c smc_open
smc_open(w, e) ==
  LET service == IF e = "notfound" THEN 0 ELSE Len(w.calls) + 1
      c1 == Append(w.calls, CallRec("IOServiceGetMatchingService", service, "AppleSMC",
                                    NoReq, NoValue, service # 0))
      h  == Len(w.kernel.released) + 1
      c2 == Append(c1, CallRec("IOServiceOpen", service, "", NoReq, NoValue, e = "accept"))
      c3 == Append(c2, CallRec("IOObjectRelease", service, "", NoReq, NoValue, TRUE))
  IN  CASE e = "notfound" -> [w EXCEPT !.calls = c1, !.ret = -1]
        [] e = "accept" ->
             [w EXCEPT !.calls = c3, !.ret = 0, !.g_smc_conn = h,
                       !.kernel.released = Append(@, 0)]
        [] e = "reject_zero" -> [w EXCEPT !.calls = c3, !.ret = -1, !.g_smc_conn = 0]
        [] OTHER -> [w EXCEPT !.calls = c3, !.ret = -1]

\* smc_close without the reset of g_smc_conn
smc_close_keep_handle(w) ==
  IF w.g_smc_conn # 0
    THEN [w EXCEPT !.calls = Append(@, CallRec("IOServiceClose", w.g_smc_conn, "",
                                               NoReq, NoValue, TRUE)),
                   !.kernel.released[w.g_smc_conn] = @ + 1,
                   !.ret = 0]
    ELSE [w EXCEPT !.ret = 0]

\* smc.c smc_close
smc_close(w) ==
  IF w.g_smc_conn # 0
    THEN [w EXCEPT !.calls = Append(@, CallRec("IOServiceClose", w.g_smc_conn, "",
                                               NoReq, NoValue, TRUE)),
                   !.kernel.released[w.g_smc_conn] = @ + 1,
                   !.g_smc_conn = 0,
                   !.ret = 0]
    ELSE [w EXCEPT !.ret = 0]

\* a copy that drops the last of the n bytes
Memcpy_short(dst, src, n) ==
  LET m == IF Min(n, Len(dst)) > 0 THEN Min(n, Len(dst)) - 1 ELSE 0
  IN  SubSeq(src, 1, m) \o SubSeq(dst, m + 1, Len(dst))

\* memcpy(dst, src, n) into a buffer of Len(dst) bytes; bytes past its end are
\* counted in the caller's overrun, not stored
Memcpy(dst, src, n) ==
  SubSeq(src, 1, Min(n, Len(dst))) \o SubSeq(dst, Min(n, Len(dst)) + 1, Len(dst))

\* smc_read_key using a one-byte KeyInfo remembered from an earlier access
\* in place of the one it has just fetched
smc_read_key_cached_info(w, key, e) ==
  LET k == four_char_code(CStr(key))
      i == smc_read_key_info(w, k, e # "infofail")
      cached == [i.info EXCEPT !.dataSize = 1]
      in_s == [ZeroParam EXCEPT !.key = k, !.keyInfo = cached, !.data8 = SMC_CMD_READ_BYTES]
      r == smc_call(i.w, in_s, e = "ok")
      size == IF cached.dataSize > SMC_BYTES THEN SMC_BYTES ELSE cached.dataSize
  IN  IF i.ret # 0 THEN [i.w EXCEPT !.ret = -1]
      ELSE IF r.status # 0 THEN [r.w EXCEPT !.ret = -1]
      ELSE [r.w EXCEPT !.out_bytes = Memcpy(@, r.out_s.bytes, size),
                       !.overrun = IF size > Len(w.out_bytes) THEN size - Len(w.out_bytes) ELSE 0,
                       !.out_size = size,
                       !.ret = 0]

\* smc_read_key copying the response and its size out before it looks at the
\* data call's result
smc_read_key_copies_first(w, key, e) ==
  LET k == four_char_code(CStr(key))
      i == smc_read_key_info(w, k, e # "infofail")
      in_s == [ZeroParam EXCEPT !.key = k, !.keyInfo = i.info, !.data8 = SMC_CMD_READ_BYTES]
      r == smc_call(i.w, in_s, e = "ok")
      size == IF i.info.dataSize > SMC_BYTES THEN SMC_BYTES ELSE i.info.dataSize
  IN  IF i.ret # 0 THEN [i.w EXCEPT !.ret = -1]
      ELSE [r.w EXCEPT !.out_bytes = Memcpy(@, r.out_s.bytes, size),
                       !.overrun = IF size > Len(w.out_bytes) THEN size - Len(w.out_bytes) ELSE 0,
                       !.out_size = size,
                       !.ret = IF r.status # 0 THEN -1 ELSE 0]

\* smc_read_key treating a declared size of 0 as a failure
smc_read_key_rejects_empty(w, key, e) ==
  LET k == four_char_code(CStr(key))
      i == smc_read_key_info(w, k, e # "infofail")
      in_s == [ZeroParam EXCEPT !.key = k, !.keyInfo = i.info, !.data8 = SMC_CMD_READ_BYTES]
      r == smc_call(i.w, in_s, e = "ok")
      size == IF i.info.dataSize > SMC_BYTES THEN SMC_BYTES ELSE i.info.dataSize
  IN  IF i.ret # 0 THEN [i.w EXCEPT !.ret = -1]
      ELSE IF r.status # 0 \/ size = 0 THEN [r.w EXCEPT !.ret = -1]
      ELSE [r.w EXCEPT !.out_bytes = Memcpy(@, r.out_s.bytes, size),
                       !.overrun = IF size > Len(w.out_bytes) THEN size - Len(w.out_bytes) ELSE 0,
                       !.out_size = size,
                       !.ret = 0]

\* smc.c smc_read_key; buf is the caller's out_bytes before the call
smc_read_key(w, key, e) ==
  LET k == four_char_code(CStr(key))
      i == smc_read_key_info(w, k, e # "infofail")
      in_s == [ZeroParam EXCEPT !.key = k, !.keyInfo = i.info, !.data8 = SMC_CMD_READ_BYTES]
      r == smc_call(i.w, in_s, e = "ok")
      size == IF i.info.dataSize > SMC_BYTES THEN SMC_BYTES ELSE i.info.dataSize
  IN  IF i.ret # 0 THEN [i.w EXCEPT !.ret = -1]
      ELSE IF r.status # 0 THEN [r.w EXCEPT !.ret = -1]
      ELSE [r.w EXCEPT !.out_bytes = Memcpy(@, r.out_s.bytes, size),
                       !.overrun = IF size > Len(w.out_bytes) THEN size - Len(w.out_bytes) ELSE 0,
                       !.out_size = size,
                       !.ret = 0]

\* smc_write_key leaving the request's keyInfo zeroed
smc_write_key_no_info(w, key, bytes, size, e) ==
  LET k == four_char_code(CStr(key))
      i == smc_read_key_info(w, k, e # "infofail")
      n == IF size > SMC_BYTES THEN SMC_BYTES ELSE size
      in_s == [ZeroParam EXCEPT !.key = k, !.data8 = SMC_CMD_WRITE_BYTES,
                                !.bytes = Memcpy(@, bytes, n)]
      r == smc_call(i.w, in_s, e = "ok")
      ret == IF r.status # 0 THEN -1 ELSE 0
  IN  IF i.ret # 0
        THEN [i.w EXCEPT !.ret = -1,
                         !.attempts = Append(@, AttemptRec("smc_write_key", key, NoValue,
                                                           bytes, size, -1))]
        ELSE [r.w EXCEPT !.ret = ret,
                         !.attempts = Append(@, AttemptRec("smc_write_key", key, NoValue,
                                                           bytes, size, ret))]

\* smc.c smc_write_key (lines 177-200), the attempt logged for the callers
smc_write_key(w, key, bytes, size, e) ==
  LET k == four_char_code(CStr(key))
      i == smc_read_key_info(w, k, e # "infofail")
      n == IF size > SMC_BYTES THEN SMC_BYTES ELSE size
      in_s == [ZeroParam EXCEPT !.key = k, !.keyInfo = i.info, !.data8 = SMC_CMD_WRITE_BYTES,
                                !.bytes = Memcpy(@, bytes, n)]
      r == smc_call(i.w, in_s, e = "ok")
      ret == IF r.status # 0 THEN -1 ELSE 0
  IN  IF i.ret # 0
        THEN [i.w EXCEPT !.ret = -1,
                         !.attempts = Append(@, AttemptRec("smc_write_key", key, NoValue,
                                                           bytes, size, -1))]
        ELSE [r.w EXCEPT !.ret = ret,
                         !.attempts = Append(@, AttemptRec("smc_write_key", key, NoValue,
                                                           bytes, size, ret))]

---------------------------------------------------------------------------
(* smc.c: charging control.  env[i] is what the environment does to the    *)
(* i-th method attempt of the operation.                                   *)

\* smc_disable_charging succeeding only when every attempt succeeds
smc_disable_charging_all(w, env) ==
  LET w1 == set_battery_property(w, "ChargeInhibit", kCFBooleanTrue, env[1])
      w2 == set_battery_property(w1, "ChargeRate", CFNumberSInt32(0), env[2])
      w3 == smc_write_key(w2, "CH0B", <<2>>, 1, env[3])
      w4 == smc_write_key(w3, "CH0I", <<1>>, 1, env[4])
  IN  [w4 EXCEPT !.ret = IF w1.ret = 0 /\ w2.ret = 0 /\ w3.ret = 0 /\ w4.ret = 0
                           THEN 0 ELSE -1]

\* smc_disable_charging returning at the first attempt that succeeds
smc_disable_charging_first(w, env) ==
  LET w1 == set_battery_property(w, "ChargeInhibit", kCFBooleanTrue, env[1])
      w2 == set_battery_property(w1, "ChargeRate", CFNumberSInt32(0), env[2])
      w3 == smc_write_key(w2, "CH0B", <<2>>, 1, env[3])
      w4 == smc_write_key(w3, "CH0I", <<1>>, 1, env[4])
  IN  IF w1.ret = 0 THEN w1
      ELSE IF w2.ret = 0 THEN w2
      ELSE IF w3.ret = 0 THEN w3
      ELSE w4

\* smc.c smc_disable_charging
smc_disable_charging(w, env) ==
  LET w1 == set_battery_property(w, "ChargeInhibit", kCFBooleanTrue, env[1])
      s1 == IF w1.ret = 0 THEN 1 ELSE 0
      w2 == set_battery_property(w1, "ChargeRate", CFNumberSInt32(0), env[2])
      s2 == IF w2.ret = 0 THEN 1 ELSE s1
      w3 == smc_write_key(w2, "CH0B", <<2>>, 1, env[3])
      s3 == IF w3.ret = 0 THEN 1 ELSE s2
      w4 == smc_write_key(w3, "CH0I", <<1>>, 1, env[4])
      s4 == IF w4.ret = 0 THEN 1 ELSE s3
  IN  [w4 EXCEPT !.ret = IF s4 # 0 THEN 0 ELSE -1]

\* smc_enable_charging setting ChargeRate to 0 and leaving CH0I at 1
smc_enable_charging_stale(w, env) ==
  LET w1 == set_battery_property(w, "ChargeInhibit", kCFBooleanFalse, env[1])
      s1 == IF w1.ret = 0 THEN 1 ELSE 0
      w2 == set_battery_property(w1, "ChargeRate", CFNumberSInt32(0), env[2])
      s2 == IF w2.ret = 0 THEN 1 ELSE s1
      w3 == smc_write_key(w2, "CH0B", <<0>>, 1, env[3])
      s3 == IF w3.ret = 0 THEN 1 ELSE s2
      w4 == smc_write_key(w3, "CH0I", <<1>>, 1, env[4])
      s4 == IF w4.ret = 0 THEN 1 ELSE s3
  IN  [w4 EXCEPT !.ret = IF s4 # 0 THEN 0 ELSE -1]

\* smc.c smc_enable_charging
smc_enable_charging(w, env) ==
  LET w1 == set_battery_property(w, "ChargeInhibit", kCFBooleanFalse, env[1])
      s1 == IF w1.ret = 0 THEN 1 ELSE 0
      w2 == set_battery_property(w1, "ChargeRate", CFNumberSInt32(-1), env[2])
      s2 == IF w2.ret = 0 THEN 1 ELSE s1
      w3 == smc_write_key(w2, "CH0B", <<0>>, 1, env[3])
      s3 == IF w3.ret = 0 THEN 1 ELSE s2
      w4 == smc_write_key(w3, "CH0I", <<0>>, 1, env[4])
      s4 == IF w4.ret = 0 THEN 1 ELSE s3
  IN  [w4 EXCEPT !.ret = IF s4 # 0 THEN 0 ELSE -1]

\* smc_set_bclm trying both methods unconditionally, like the other two
smc_set_bclm_both(w, percentage, env) ==
  LET w1 == set_battery_property(w, "ChargeCapacity", CFNumberSInt32(percentage), env[1])
      w2 == smc_write_key(w1, "BCLM", <<percentage>>, 1, env[2])
  IN  [w2 EXCEPT !.ret = IF w1.ret = 0 \/ w2.ret = 0 THEN 0 ELSE -1]

\* smc.c smc_set_bclm
smc_set_bclm(w, percentage, env) ==
  LET w1 == set_battery_property(w, "ChargeCapacity", CFNumberSInt32(percentage), env[1])
  IN  IF w1.ret = 0
        THEN [w1 EXCEPT !.ret = 0]
        ELSE smc_write_key(w1, "BCLM", <<percentage>>, 1, env[2])

\* smc.c smc_get_bclm; w.out_bytes is the caller's one byte *out_percentage,
\* w.out_size the local size
smc_get_bclm(w, e) ==
  smc_read_key([w EXCEPT !.out_size = 0], "BCLM", e)

---------------------------------------------------------------------------
(* smc_tool.c: the diagnostic tool.  t is the process state: g_conn, the   *)
(* IOKit side (kernel, smc, calls), main's val, stdout and a return value. *)

\* what IOKit does to SMCOpen
ToolOpenEnv == {"matchfail", "nodevice", "reject", "accept"}
\* what the transport does to the calls of SMCReadKey and SMCWriteKey
ToolSmcEnv == {"infofail", "datafail", "writefail", "ok"}

kIOReturnSuccess == "kIOReturnSuccess"
kIOReturnError == "kIOReturnError"
kIOReturnNotFound == "kIOReturnNotFound"

ZeroVal == [key |-> <<0, 0, 0, 0, 0>>, dataSize |-> 0, dataType |-> <<0, 0, 0, 0, 0>>,
            bytes |-> Zeros(SMC_BYTES)]

\* smc_tool.c SMCOpen
SMCOpen(t, e) ==
  LET c1 == Append(t.calls, CallRec("IOServiceGetMatchingServices", 0, "AppleSMC", NoReq,
                                    NoValue, e # "matchfail"))
      device == IF e = "nodevice" THEN 0 ELSE Len(c1) + 1
      c2 == Append(Append(c1, CallRec("IOIteratorNext", device, "", NoReq, NoValue,
                                      device # 0)),
                   CallRec("IOObjectRelease", Len(c1), "", NoReq, NoValue, TRUE))
      c3 == Append(Append(c2, CallRec("IOServiceOpen", device, "", NoReq, NoValue,
                                      e = "accept")),
                   CallRec("IOObjectRelease", device, "", NoReq, NoValue, TRUE))
  IN  CASE e = "matchfail" -> [t EXCEPT !.calls = c1, !.ret = kIOReturnError]
        [] e = "nodevice"  -> [t EXCEPT !.calls = c2, !.ret = kIOReturnNotFound]
        [] e = "accept"    ->
             [t EXCEPT !.calls = c3, !.ret = kIOReturnSuccess,
                       !.g_conn = Len(t.kernel.released) + 1,
                       !.kernel.released = Append(@, 0)]
        [] OTHER           -> [t EXCEPT !.calls = c3, !.ret = kIOReturnError]

\* smc_tool.c SMCClose
SMCClose(t) ==
  [t EXCEPT !.calls = Append(@, CallRec("IOServiceClose", t.g_conn, "", NoReq, NoValue,
                                        ConnOpen(t.kernel, t.g_conn))),
            !.kernel.released =
               IF t.g_conn \in 1..Len(@) THEN [@ EXCEPT ![t.g_conn] = @ + 1] ELSE @]

\* smc_tool.c SMCCall
SMCCall(t, in_s, envOk) ==
  LET ok == envOk /\ ConnOpen(t.kernel, t.g_conn) /\ in_s.key \in DOMAIN t.smc
      c  == IF ok THEN Controller(t.smc, in_s) ELSE [store |-> t.smc, out |-> ZeroParam]
  IN  [t |-> [t EXCEPT !.smc = c.store,
                       !.calls = Append(@, CallRec("IOConnectCallStructMethod", t.g_conn,
                                                   "", in_s, NoValue, ok))],
       result |-> IF ok THEN kIOReturnSuccess ELSE kIOReturnError,
       out_s |-> c.out]

\* smc_tool.c SMCReadKey: the process state after it, the result and *val
SMCReadKey(t, key, e) ==
  LET v0 == [ZeroVal EXCEPT !.key = key]
      in1 == [ZeroParam EXCEPT !.key = _strtoul(key, 4, 16), !.data8 = SMC_CMD_READ_KEYINFO]
      r1 == SMCCall(t, in1, e # "infofail")
      v1 == [v0 EXCEPT !.dataSize = r1.out_s.keyInfo.dataSize,
                       !.dataType = _ultostr(r1.out_s.keyInfo.dataType)]
      in2 == [in1 EXCEPT !.keyInfo.dataSize = v1.dataSize, !.data8 = SMC_CMD_READ_BYTES]
      r2 == SMCCall(r1.t, in2, e # "datafail")
  IN  IF r1.result # kIOReturnSuccess THEN [t |-> r1.t, result |-> r1.result, val |-> v0]
      ELSE IF r2.result # kIOReturnSuccess THEN [t |-> r2.t, result |-> r2.result, val |-> v1]
      ELSE [t |-> r2.t, result |-> kIOReturnSuccess,
            val |-> [v1 EXCEPT !.bytes = r2.out_s.bytes]]

\* smc_tool.c SMCWriteKey: the process state after it and the result
SMCWriteKey(t, writeVal, e) ==
  LET rd == SMCReadKey(t, writeVal.key, e)
      in_s == [ZeroParam EXCEPT !.key = _strtoul(writeVal.key, 4, 16),
                                !.data8 = SMC_CMD_WRITE_BYTES,
                                !.keyInfo.dataSize = writeVal.dataSize,
                                !.bytes = writeVal.bytes]
      r == SMCCall(rd.t, in_s, e # "writefail")
  IN  IF rd.result # kIOReturnSuccess THEN [t |-> rd.t, result |-> rd.result]
      ELSE IF rd.val.dataSize # writeVal.dataSize
        THEN [t |-> rd.t, result |-> kIOReturnError]
      ELSE [t |-> r.t, result |-> r.result]

\* smc_tool.c printVal: the line printed, with the bytes it read from val.bytes;
\* a read past the 32 bytes of val.bytes gives the byte garbage
printVal(v, garbage) ==
  IF v.dataSize > 0
    THEN [text |-> "bytes", key |-> v.key, dataType |-> v.dataType,
          bytes |-> [i \in 1..v.dataSize |->
                       IF i <= SMC_BYTES THEN v.bytes[i] ELSE garbage]]
    ELSE [text |-> "no data", key |-> v.key, dataType |-> v.dataType, bytes |-> <<>>]

Line(text) == [text |-> text, key |-> <<>>, dataType |-> <<>>, bytes |-> <<>>]

\* '0'..'9', 'a'..'f', 'A'..'F'; -1 for any other character
HexDigit(c) ==
  CASE c \in 48..57  -> c - 48
    [] c \in 97..102 -> c - 87
    [] c \in 65..70  -> c - 55
    [] OTHER         -> -1

\* (unsigned char)strtol(hex, NULL, 16) of the two characters h0 h1
Strtol16(h0, h1) ==
  IF HexDigit(h0) < 0 THEN 0
  ELSE IF HexDigit(h1) < 0 THEN HexDigit(h0)
  ELSE 16 * HexDigit(h0) + HexDigit(h1)

\* main's -w case: val.bytes and val.dataSize from optarg
ParseHex(v, optarg) ==
  LET n == Len(optarg) \div 2
  IN  [v EXCEPT !.bytes = [i \in 1..n |-> Strtol16(optarg[2 * i - 1], optarg[2 * i])]
                          \o SubSeq(@, n + 1, SMC_BYTES),
                !.dataSize = n]

\* strncpy(key, optarg, 4); key[4] = '\0' into the zeroed key
Strncpy4(optarg) ==
  LET n == Min(Len(optarg), 4)
  IN  SubSeq(optarg, 1, n) \o Zeros(5 - n)

\* main returning without SMCClose when the read or the write failed
main_leaks_on_failure(t, a, eo, es, garbage) ==
  LET key == Strncpy4(a.key)
      v == IF a.mode = "w" THEN ParseHex(t.val, a.hex) ELSE t.val
      usage == [t EXCEPT !.val = v, !.printed = <<Line("usage")>>, !.ret = 1]
      o == SMCOpen([t EXCEPT !.val = v, !.ret = kIOReturnSuccess], eo)
      rd == SMCReadKey(o, key, es)
      wv == [v EXCEPT !.key = key]
      wr == SMCWriteKey([o EXCEPT !.val = wv], wv, es)
      done(tt, result) == IF result = kIOReturnSuccess
                            THEN [SMCClose(tt) EXCEPT !.ret = 0]
                            ELSE [tt EXCEPT !.ret = 1]
  IN  IF a.mode = "h" \/ key[1] = 0 \/ a.mode = "" THEN usage
      ELSE IF o.ret # kIOReturnSuccess THEN [o EXCEPT !.ret = 1]
      ELSE IF a.mode = "r"
        THEN done([rd.t EXCEPT !.val = rd.val,
                               !.printed = IF rd.result = kIOReturnSuccess
                                             THEN <<printVal(rd.val, garbage)>>
                                             ELSE <<Line("no data")>>],
                  rd.result)
        ELSE done([wr.t EXCEPT !.printed = IF wr.result = kIOReturnSuccess
                                             THEN <<Line("ok")>> ELSE <<>>],
                  wr.result)

\* smc_tool.c main.  a: the arguments (key: -k's optarg without its NUL, or
\* <<>>; mode: "r", "w", "h" or ""; hex: -w's optarg); eo, es: the environment
main(t, a, eo, es, garbage) ==
  LET key == Strncpy4(a.key)
      v == IF a.mode = "w" THEN ParseHex(t.val, a.hex) ELSE t.val
      usage == [t EXCEPT !.val = v, !.printed = <<Line("usage")>>, !.ret = 1]
      o == SMCOpen([t EXCEPT !.val = v, !.ret = kIOReturnSuccess], eo)
      rd == SMCReadKey(o, key, es)
      wv == [v EXCEPT !.key = key]
      wr == SMCWriteKey([o EXCEPT !.val = wv], wv, es)
      done(tt, result) == [SMCClose(tt) EXCEPT !.ret = IF result = kIOReturnSuccess THEN 0 ELSE 1]
  IN  IF a.mode = "h" \/ key[1] = 0 \/ a.mode = "" THEN usage
      ELSE IF o.ret # kIOReturnSuccess THEN [o EXCEPT !.ret = 1]
      ELSE IF a.mode = "r"
        THEN done([rd.t EXCEPT !.val = rd.val,
                               !.printed = IF rd.result = kIOReturnSuccess
                                             THEN <<printVal(rd.val, garbage)>>
                                             ELSE <<Line("no data")>>],
                  rd.result)
        ELSE done([wr.t EXCEPT !.printed = IF wr.result = kIOReturnSuccess
                                             THEN <<Line("ok")>> ELSE <<>>],
                  wr.result)

---------------------------------------------------------------------------
(* The library as a state machine: one action per public function *)

Sizes == (0..MaxSmall) \cup {SMC_BYTES} \cup ((SMC_BYTES + 1)..(SMC_BYTES + MaxOver))

\* the byte sequences callers write
Pattern(n) == SubSeq([i \in 1..(SMC_BYTES + MaxOver) |-> (160 + i) % 256], 1, n)

\* the caller's out_bytes and *out_size before a read
CallerBuf == [bytes |-> SubSeq([i \in 1..SMC_BYTES |-> 204], 1, SMC_BYTES), size |-> 77]

\* the keys the generic read and write are exercised on
AccessKeys == {"CH0B", "BCLM"}

Percentages == {50, 255}

InitStore ==
  [k \in {four_char_code(CStr(n)) : n \in KeyNames} |->
     [info |-> [dataSize |-> 1, dataType |-> four_char_code(<<117, 105, 56, 32, 0>>),
                dataAttributes |-> 0],
      bytes |-> Zeros(SMC_BYTES)]]

NoOp == [name |-> "", key |-> "", bytes |-> <<>>, size |-> 0, ret |-> 0,
         conn_before |-> 0, declared |-> 0, overrun |-> 0]

OpRec(name, key, bytes, size, w) ==
  [name |-> name, key |-> key, bytes |-> bytes, size |-> size, ret |-> w.ret,
   conn_before |-> g_smc_conn,
   declared |-> IF key \in KeyNames THEN smc[four_char_code(CStr(key))].info.dataSize ELSE 0,
   overrun |-> w.overrun]

\* the program state an operation starts from
W0 ==
  [g_smc_conn |-> g_smc_conn, kernel |-> kernel, smc |-> smc, calls |-> <<>>,
   attempts |-> <<>>, ret |-> 0, out_bytes |-> CallerBuf.bytes, out_size |-> CallerBuf.size,
   overrun |-> 0]

Commit(w, o, lw) ==
  /\ pc' = "returned"
  /\ g_smc_conn' = w.g_smc_conn
  /\ kernel' = w.kernel
  /\ smc' = w.smc
  /\ calls' = w.calls
  /\ attempts' = w.attempts
  /\ out_bytes' = w.out_bytes
  /\ out_size' = w.out_size
  /\ op' = o
  /\ lastWrite' = lw
  /\ UNCHANGED <<toolVars, codecVars>>

ToolIdle ==
  /\ g_conn = 0
  /\ val = ZeroVal
  /\ printed = <<>>

CodecIdle ==
  /\ str = <<0, 0, 0, 0, 0>>
  /\ code = <<>>
  /\ decoded = <<>>

InitLib ==
  /\ g_smc_conn = 0
  /\ kernel = [released |-> <<>>]
  /\ smc = InitStore
  /\ calls = <<>>
  /\ attempts = <<>>
  /\ op = NoOp
  /\ out_bytes = CallerBuf.bytes
  /\ out_size = CallerBuf.size
  /\ lastWrite = NoOp
  /\ pc = "ready"

Init == InitLib /\ ToolIdle /\ CodecIdle

Open ==
  /\ pc = "ready"
  /\ \E e \in OpenEnv :
    /\ e = "accept" => Len(kernel.released) < MaxOpens
    /\ \E w \in {smc_open(W0, e)} :
         Commit(w, OpRec("smc_open", "", <<>>, 0, w), NoOp)

Close ==
  /\ pc = "ready"
  /\ \E w \in {smc_close(W0)} :
       Commit(w, OpRec("smc_close", "", <<>>, 0, w), NoOp)

ReadKey ==
  /\ pc = "ready"
  /\ \E key \in AccessKeys, e \in SmcEnv :
       \E w \in {smc_read_key(W0, key, e)} :
         Commit(w, OpRec("smc_read_key", key, <<>>, 0, w), lastWrite)

WriteKey ==
  /\ pc = "ready"
  /\ \E key \in AccessKeys, n \in Sizes, e \in SmcEnv :
       \E w \in {smc_write_key(W0, key, Pattern(n), n, e)} :
         Commit(w, OpRec("smc_write_key", key, Pattern(n), n, w), NoOp)

DisableCharging ==
  /\ pc = "ready"
  /\ \E e1 \in RegEnv, e2 \in RegEnv, e3 \in SmcEnv, e4 \in SmcEnv :
       \E w \in {smc_disable_charging(W0, <<e1, e2, e3, e4>>)} :
         Commit(w, OpRec("smc_disable_charging", "", <<>>, 0, w), NoOp)

EnableCharging ==
  /\ pc = "ready"
  /\ \E e1 \in RegEnv, e2 \in RegEnv, e3 \in SmcEnv, e4 \in SmcEnv :
       \E w \in {smc_enable_charging(W0, <<e1, e2, e3, e4>>)} :
         Commit(w, OpRec("smc_enable_charging", "", <<>>, 0, w), NoOp)

SetBclm ==
  /\ pc = "ready"
  /\ \E p \in Percentages, e1 \in RegEnv, e2 \in SmcEnv :
       \E w \in {smc_set_bclm(W0, p, <<e1, e2>>)} :
         Commit(w, OpRec("smc_set_bclm", "BCLM", <<p>>, 1, w), NoOp)

\* the caller takes the result and is ready for its next call, with fresh
\* output buffers
Return ==
  /\ pc = "returned"
  /\ pc' = "ready"
  /\ op' = NoOp
  /\ calls' = <<>>
  /\ attempts' = <<>>
  /\ out_bytes' = CallerBuf.bytes
  /\ out_size' = CallerBuf.size
  /\ lastWrite' = IF op.name = "smc_write_key" /\ op.ret = 0 THEN op ELSE NoOp
  /\ UNCHANGED <<g_smc_conn, kernel, smc, toolVars, codecVars>>

\* the key whose declared size the controller changes; the other keys keep
\* the one byte they start with
ResizedKey == "CH0B"

\* the controller changes the size it declares for ResizedKey
ControllerResize ==
  \E s \in Sizes :
    LET k == four_char_code(CStr(ResizedKey))
    IN  /\ pc = "ready"
        /\ smc[k].info.dataSize # s
        /\ smc' = [smc EXCEPT ![k].info.dataSize = s]
        /\ UNCHANGED <<g_smc_conn, kernel, calls, attempts, op, out_bytes, out_size,
                       lastWrite, pc, toolVars, codecVars>>

\* the key access protocol and the connection
Next == Open \/ Close \/ ReadKey \/ WriteKey \/ Return \/ ControllerResize

Spec == Init /\ [][Next]_vars

\* the caller's byte *out_percentage before smc_get_bclm
CallerPercentage == <<204>>

GetBclm ==
  /\ pc = "ready"
  /\ \E e \in SmcEnv :
       \E w \in {smc_get_bclm([W0 EXCEPT !.out_bytes = CallerPercentage], e)} :
         Commit(w, OpRec("smc_get_bclm", "BCLM", <<>>, 0, w), NoOp)

\* the controller changes the size it declares for BCLM
ControllerResizeBclm ==
  \E s \in Sizes :
    LET k == four_char_code(CStr("BCLM"))
    IN  /\ pc = "ready"
        /\ smc[k].info.dataSize # s
        /\ smc' = [smc EXCEPT ![k].info.dataSize = s]
        /\ UNCHANGED <<g_smc_conn, kernel, calls, attempts, op, out_bytes, out_size,
                       lastWrite, pc, toolVars, codecVars>>

\* the charge limit: its setter, its getter and the generic read
NextBclm ==
  Open \/ Close \/ ReadKey \/ GetBclm \/ SetBclm \/ Return \/ ControllerResizeBclm

SpecBclm == Init /\ [][NextBclm]_vars

\* charging control and the connection
NextPolicy == Open \/ Close \/ DisableCharging \/ EnableCharging \/ SetBclm \/ Return

SpecPolicy == Init /\ [][NextPolicy]_vars

---------------------------------------------------------------------------
(* The tool as a state machine: every run of main is a process of its own *)

\* -k arguments: none, "CH0B", "AB", "CH0BX"
ToolKeys == {<<>>, <<67, 72, 48, 66>>, <<65, 66>>, <<67, 72, 48, 66, 88>>}

HexChar(d) == IF d < 10 THEN 48 + d ELSE 87 + d

\* the hex text of a byte sequence
HexStr(b) ==
  [i \in 1..(2 * Len(b)) |->
     HexChar(IF i % 2 = 1 THEN b[(i + 1) \div 2] \div 16 ELSE b[i \div 2] % 16)]

\* -w arguments: the hex text of the written patterns that fit val.bytes, and
\* "A5f", of odd length
HexInputs == {HexStr(Pattern(n)) : n \in {m \in Sizes : m <= SMC_BYTES}} \cup {<<65, 53, 102>>}

ToolArgs ==
  {[key |-> k, mode |-> m, hex |-> <<>>] : k \in ToolKeys, m \in {"r", "h", ""}}
  \cup {[key |-> k, mode |-> "w", hex |-> h] : k \in ToolKeys, h \in HexInputs}

\* what a read past val.bytes may find
Garbage == {0, 170}

T0 ==
  [g_conn |-> 0, kernel |-> [released |-> <<>>], smc |-> smc, calls |-> <<>>,
   val |-> ZeroVal, printed |-> <<>>, ret |-> 0]

ToolOp(a, t) ==
  LET k == _strtoul(Strncpy4(a.key), 4, 16)
  IN  [name |-> "main", key |-> a.key, mode |-> a.mode, hex |-> a.hex, ret |-> t.ret,
       declared |-> IF k \in DOMAIN smc THEN smc[k].info.dataSize ELSE 0]

Main ==
  /\ pc = "ready"
  /\ \E a \in ToolArgs, eo \in ToolOpenEnv, es \in ToolSmcEnv, g \in Garbage :
       /\ (a.mode # "w" => es # "writefail")
       /\ (a.mode # "r" => g = 0)
       /\ \E t \in {main(T0, a, eo, es, g)} :
            /\ pc' = "returned"
            /\ g_conn' = t.g_conn
            /\ kernel' = t.kernel
            /\ smc' = t.smc
            /\ calls' = t.calls
            /\ val' = t.val
            /\ printed' = t.printed
            /\ op' = ToolOp(a, t)
            /\ UNCHANGED <<g_smc_conn, attempts, out_bytes, out_size, lastWrite, codecVars>>

\* the process has ended; the next run starts from zeroed globals
Exit ==
  /\ pc = "returned"
  /\ pc' = "ready"
  /\ g_conn' = 0
  /\ kernel' = [released |-> <<>>]
  /\ calls' = <<>>
  /\ val' = ZeroVal
  /\ printed' = <<>>
  /\ op' = NoOp
  /\ UNCHANGED <<g_smc_conn, smc, attempts, out_bytes, out_size, lastWrite, codecVars>>

NextTool == Main \/ Exit \/ ControllerResize

SpecTool == Init /\ [][NextTool]_vars

---------------------------------------------------------------------------
(* The codec on its own: one string encoded both ways, then decoded *)

Chars == {1, 48, 66, 127, 128, 255}

\* the zero-filled 5-byte key buffers holding a string of 0 to 4 characters
RECURSIVE StringsOf(_)
StringsOf(n) ==
  IF n = 0 THEN {<<>>}
  ELSE {Append(t, c) : t \in StringsOf(n - 1), c \in Chars}

KeyBuffers == {t \o Zeros(5 - Len(t)) : t \in UNION {StringsOf(n) : n \in 0..4}}

InitCodec ==
  /\ InitLib
  /\ ToolIdle
  /\ str \in KeyBuffers
  /\ code = <<>>
  /\ decoded = <<>>

Encode ==
  /\ code = <<>>
  /\ code' = <<four_char_code(str), _strtoul(str, 4, 16)>>
  /\ UNCHANGED <<str, decoded, libVars, toolVars>>

Decode ==
  /\ code # <<>>
  /\ decoded = <<>>
  /\ decoded' = <<_ultostr(code[1]), _ultostr(code[2])>>
  /\ UNCHANGED <<str, code, libVars, toolVars>>

NextCodec == Encode \/ Decode

SpecCodec == InitCodec /\ [][NextCodec]_vars

---------------------------------------------------------------------------
(* Claims *)

KeyId(name) == four_char_code(CStr(name))

\* the registry accepted a set of property name during the last operation
RegistrySetOk(name) ==
  \E i \in 1..Len(calls) :
    /\ calls[i].fn = "IORegistryEntrySetCFProperty"
    /\ calls[i].name = name
    /\ calls[i].ok

\* the positions in calls of the transport calls with command cmd
SmcCallsOf(cmd) ==
  {i \in 1..Len(calls) :
     calls[i].fn = "IOConnectCallStructMethod" /\ calls[i].req.data8 = cmd}

SmcCalls == {i \in 1..Len(calls) : calls[i].fn = "IOConnectCallStructMethod"}

\* the transport accepted a write-bytes request for key name during the last operation
SmcWriteOk(name) ==
  \E i \in SmcCallsOf(SMC_CMD_WRITE_BYTES) : calls[i].req.key = KeyId(name) /\ calls[i].ok

Returned(name) == pc = "returned" /\ op.name = name

\* C1: smc_disable_charging returns 0 exactly when at least one of its four
\* attempts (ChargeInhibit, ChargeRate, CH0B, CH0I) succeeded, and -1 exactly
\* when all four failed.
C1_DisableSucceedsIffAnyAttempt ==
  Returned("smc_disable_charging") =>
    LET any == \/ RegistrySetOk("ChargeInhibit") \/ RegistrySetOk("ChargeRate")
               \/ SmcWriteOk("CH0B") \/ SmcWriteOk("CH0I")
    IN  /\ Len(attempts) = 4
        /\ any <=> (\E i \in 1..4 : attempts[i].ret = 0)
        /\ op.ret = 0 <=> any
        /\ op.ret = -1 <=> ~any

\* C1 witness: only the last attempt (CH0I) succeeded and the operation succeeded
C1_Witness ==
  /\ Returned("smc_disable_charging")
  /\ ~RegistrySetOk("ChargeInhibit") /\ ~RegistrySetOk("ChargeRate")
  /\ ~SmcWriteOk("CH0B") /\ SmcWriteOk("CH0I")
  /\ op.ret = 0

\* C2: smc_set_bclm(p) tries the registry ChargeCapacity property first; if it
\* succeeds no SMC call is issued and the result is 0; if it fails, one
\* smc_write_key of BCLM with the single byte p is attempted and its result is
\* the operation's result.
C2_SetBclmFallback ==
  Returned("smc_set_bclm") =>
    LET p == op.bytes[1]
    IN  /\ Len(attempts) >= 1
        /\ attempts[1].fn = "set_battery_property"
        /\ attempts[1].name = "ChargeCapacity"
        /\ attempts[1].value = CFNumberSInt32(p)
        /\ calls[1].fn = "IOServiceGetMatchingService"
        /\ attempts[1].ret = 0 <=> RegistrySetOk("ChargeCapacity")
        /\ attempts[1].ret = 0 =>
             /\ Len(attempts) = 1
             /\ SmcCalls = {}
             /\ op.ret = 0
        /\ attempts[1].ret # 0 =>
             /\ Len(attempts) = 2
             /\ attempts[2].fn = "smc_write_key"
             /\ attempts[2].name = "BCLM"
             /\ attempts[2].bytes = <<p>>
             /\ attempts[2].size = 1
             /\ op.ret = attempts[2].ret
             /\ Cardinality(SmcCallsOf(SMC_CMD_WRITE_BYTES)) <= 1
             /\ \A i \in SmcCallsOf(SMC_CMD_WRITE_BYTES) :
                  /\ calls[i].req.key = KeyId("BCLM")
                  /\ calls[i].req.bytes = <<p>> \o Zeros(SMC_BYTES - 1)
                  /\ (op.ret = 0 <=> calls[i].ok)
             /\ \A i \in SmcCalls : calls[i].req.key = KeyId("BCLM")

\* C2 witness: the registry path failed and the one SMC write of BCLM succeeded
C2_Witness ==
  /\ Returned("smc_set_bclm")
  /\ attempts[1].ret # 0
  /\ Cardinality(SmcCallsOf(SMC_CMD_WRITE_BYTES)) = 1
  /\ op.ret = 0
  /\ op.bytes = <<50>>

\* C8: every smc_disable_charging makes each of the four attempts exactly
\* once, in the order ChargeInhibit, ChargeRate, CH0B, CH0I, whatever the
\* earlier attempts returned.
C8_DisableAttemptsAllInOrder ==
  Returned("smc_disable_charging") =>
    /\ [i \in 1..Len(attempts) |-> <<attempts[i].fn, attempts[i].name>>] =
         << <<"set_battery_property", "ChargeInhibit">>,
            <<"set_battery_property", "ChargeRate">>,
            <<"smc_write_key", "CH0B">>,
            <<"smc_write_key", "CH0I">> >>
    /\ attempts[1].value = kCFBooleanTrue
    /\ attempts[2].value = CFNumberSInt32(0)
    /\ attempts[3].bytes = <<2>> /\ attempts[3].size = 1
    /\ attempts[4].bytes = <<1>> /\ attempts[4].size = 1

\* C8 witness: the first attempt succeeded, the second failed, and the third
\* and fourth were still made
C8_Witness ==
  /\ Returned("smc_disable_charging")
  /\ Len(attempts) = 4
  /\ attempts[1].ret = 0 /\ attempts[2].ret = -1
  /\ attempts[3].ret = 0 /\ attempts[4].ret = -1

\* C9: smc_enable_charging makes the same four attempts as
\* smc_disable_charging, in the same order and unconditionally, with
\* ChargeInhibit = false, ChargeRate = -1, CH0B = 0x00, CH0I = 0x00, and
\* returns 0 exactly when at least one attempt succeeded.
C9_EnableMirrorsDisable ==
  Returned("smc_enable_charging") =>
    /\ [i \in 1..Len(attempts) |-> <<attempts[i].fn, attempts[i].name>>] =
         << <<"set_battery_property", "ChargeInhibit">>,
            <<"set_battery_property", "ChargeRate">>,
            <<"smc_write_key", "CH0B">>,
            <<"smc_write_key", "CH0I">> >>
    /\ attempts[1].value = kCFBooleanFalse
    /\ attempts[2].value = CFNumberSInt32(-1)
    /\ attempts[3].bytes = <<0>> /\ attempts[3].size = 1
    /\ attempts[4].bytes = <<0>> /\ attempts[4].size = 1
    /\ op.ret \in {0, -1}
    /\ op.ret = 0 <=> (\E i \in 1..4 : attempts[i].ret = 0)
    /\ op.ret = 0 <=> (\/ RegistrySetOk("ChargeInhibit") \/ RegistrySetOk("ChargeRate")
                       \/ SmcWriteOk("CH0B") \/ SmcWriteOk("CH0I"))

\* C9 witness: only the CH0B reset succeeded and the operation succeeded
C9_Witness ==
  /\ Returned("smc_enable_charging")
  /\ ~RegistrySetOk("ChargeInhibit") /\ ~RegistrySetOk("ChargeRate")
  /\ SmcWriteOk("CH0B") /\ ~SmcWriteOk("CH0I")
  /\ op.ret = 0

\* the transport accepted a request with command cmd during the last operation
SmcOk(cmd) == \E i \in SmcCallsOf(cmd) : calls[i].ok

\* C3: a write whose caller-supplied size differs from the size the info
\* phase returned for the key fails and issues no write-bytes call.
C3_WriteSizeMismatchFails ==
  (/\ Returned("smc_write_key")
   /\ SmcOk(SMC_CMD_READ_KEYINFO)
   /\ op.size # op.declared) =>
    /\ op.ret # 0
    /\ SmcCallsOf(SMC_CMD_WRITE_BYTES) = {}

\* smc_tool.c's SMCWriteKey does refuse such a write, before any write-bytes call
ToolWriteChecksSize ==
  (/\ Returned("main")
   /\ op.mode = "w"
   /\ SmcOk(SMC_CMD_READ_KEYINFO) /\ SmcOk(SMC_CMD_READ_BYTES)
   /\ Len(op.hex) \div 2 # op.declared) =>
    /\ op.ret = 1
    /\ SmcCallsOf(SMC_CMD_WRITE_BYTES) = {}

\* a successful read that comes straight after a successful write of the same
\* key, of as many bytes as the key declares
ReadAfterMatchingWrite ==
  /\ Returned("smc_read_key")
  /\ op.ret = 0
  /\ lastWrite.name = "smc_write_key"
  /\ lastWrite.key = op.key
  /\ lastWrite.size = lastWrite.declared
  /\ Len(lastWrite.bytes) = lastWrite.size
  /\ op.declared = lastWrite.declared

ReadGivesLastWrite ==
  /\ out_size = lastWrite.size
  /\ SubSeq(out_bytes, 1, Min(out_size, SMC_BYTES)) = lastWrite.bytes

\* C4 as stated: for every byte sequence whose length equals the key's
\* declared size, a successful write followed immediately by a read of the
\* same key returns exactly the bytes written and the same size.
C4_RoundTripAnySize == ReadAfterMatchingWrite => ReadGivesLastWrite

\* C4: for every byte sequence whose length equals the key's declared size and
\* is at most 32, a successful write followed immediately by a read of the
\* same key returns exactly the bytes written and the same size.
C4_WriteReadRoundTrip ==
  (ReadAfterMatchingWrite /\ lastWrite.size <= SMC_BYTES) => ReadGivesLastWrite

\* C4 witness: 32 bytes written and read back
C4_Witness ==
  /\ ReadAfterMatchingWrite
  /\ lastWrite.size = SMC_BYTES
  /\ out_bytes = Pattern(SMC_BYTES)

\* C5 as stated, on the tool's read path: a successful read reports
\* min(declared size, 32) as its size and consumes that many bytes of the
\* value, never more than 32.
C5_ReadSizeClamped ==
  (Returned("main") /\ op.mode = "r" /\ op.ret = 0) =>
    /\ val.dataSize = Min(op.declared, SMC_BYTES)
    /\ Len(printed) = 1
    /\ Len(printed[1].bytes) = Min(op.declared, SMC_BYTES)
    /\ Len(printed[1].bytes) <= SMC_BYTES

\* smc.c's smc_read_key does clamp: it reports min(declared size, 32), copies
\* that many bytes and leaves the rest of the caller's buffer alone
LibReadClamped ==
  (Returned("smc_read_key") /\ op.ret = 0) =>
    LET k == KeyId(op.key)
        n == Min(op.declared, SMC_BYTES)
    IN  /\ out_size = n
        /\ SubSeq(out_bytes, 1, n) = SubSeq(smc[k].bytes, 1, n)
        /\ SubSeq(out_bytes, n + 1, SMC_BYTES) = SubSeq(CallerBuf.bytes, n + 1, SMC_BYTES)
        /\ op.overrun = 0

\* C6: when the info phase reports a declared size of 0 and both transport
\* calls succeed, the read returns success with size 0 and copies no byte to
\* the output buffer.
C6_ReadOfEmptyKey ==
  (/\ Returned("smc_read_key")
   /\ op.declared = 0
   /\ SmcOk(SMC_CMD_READ_KEYINFO)
   /\ SmcOk(SMC_CMD_READ_BYTES)) =>
    /\ op.ret = 0
    /\ out_size = 0
    /\ out_bytes = CallerBuf.bytes

\* C6 witness: a read of a key declared empty, both calls accepted, after the
\* key was given a non-zero value
C6_Witness ==
  /\ Returned("smc_read_key")
  /\ op.declared = 0
  /\ SmcOk(SMC_CMD_READ_KEYINFO)
  /\ SmcOk(SMC_CMD_READ_BYTES)
  /\ smc[KeyId(op.key)].bytes # Zeros(SMC_BYTES)
  /\ out_size = 0

\* C7: smc_close with no connection open issues no release call and leaves
\* the handle at zero; the handle is zero after every close, and no handle is
\* ever released more than once.
C7_CloseIdempotent ==
  /\ (Returned("smc_close") /\ op.conn_before = 0) =>
       /\ calls = <<>>
       /\ g_smc_conn = 0
       /\ kernel.released = W0.kernel.released
  /\ Returned("smc_close") =>
       /\ g_smc_conn = 0
       /\ Len(calls) <= 1
  /\ \A h \in 1..Len(kernel.released) : kernel.released[h] <= 1

\* C7 witness: a close with no connection open, after a connection was opened
\* and closed
C7_Witness ==
  /\ Returned("smc_close")
  /\ op.conn_before = 0
  /\ \E h \in 1..Len(kernel.released) : kernel.released[h] = 1

\* the tool closes only the connection it has just opened, once
ToolClosesOnce ==
  /\ \A i \in 1..Len(calls) : calls[i].fn = "IOServiceClose" => calls[i].ok
  /\ \A h \in 1..Len(kernel.released) : kernel.released[h] <= 1

\* C10: for every string s of 4 non-zero bytes, _ultostr of the 32-bit
\* encoding of s is s again, for the encoders four_char_code and
\* _strtoul(., 4, 16).
C10_KeyRoundTrip ==
  (decoded # <<>> /\ \A i \in 1..4 : str[i] # 0) =>
    /\ decoded[1] = str
    /\ decoded[2] = str

\* C10 witness: the round trip of a string with bytes above 127
C10_Witness ==
  /\ decoded # <<>>
  /\ str = <<255, 66, 128, 1, 0>>
  /\ code[1] = <<255 * 256 + 66, 128 * 256 + 1>>

\* C11: for every key string of length 0 to 4, four_char_code and
\* _strtoul(., 4, 16) give the same 32-bit value.
C11_EncodersAgree ==
  code # <<>> => code[1] = code[2]

\* the two encoders do agree on the strings of 4 non-zero bytes and on the
\* empty string
EncodersAgreeOnFullKeys ==
  (code # <<>> /\ (str[1] = 0 \/ \A i \in 1..4 : str[i] # 0)) => code[1] = code[2]

\* a key access (read or write) of the library has returned
ReturnedAccess == Returned("smc_read_key") \/ Returned("smc_write_key")

\* the operation's info-phase call was issued and came back with a failure
InfoFailed == \E i \in SmcCallsOf(SMC_CMD_READ_KEYINFO) : ~calls[i].ok

\* C12: when the info-phase call of a read or write fails, the operation
\* returns failure and issues no read-bytes and no write-bytes call.
C12_InfoFailureAborts ==
  (ReturnedAccess /\ InfoFailed) =>
    /\ op.ret = -1
    /\ SmcCallsOf(SMC_CMD_READ_BYTES) = {}
    /\ SmcCallsOf(SMC_CMD_WRITE_BYTES) = {}
    /\ Len(calls) = 1

\* C12 witness: a write on an open connection whose info call the transport
\* refused
C12_Witness ==
  /\ Returned("smc_write_key")
  /\ InfoFailed
  /\ ConnOpen(kernel, g_smc_conn)
  /\ op.size = 1

\* C13: every read and write issues its own read-key-info call for its key
\* before its data-phase call, and the data-phase request carries the key id
\* and the KeyInfo the controller declares at that operation, whatever it
\* declared at an earlier one.
C13_KeyInfoFetchedFresh ==
  ReturnedAccess =>
    LET k == KeyId(op.key)
    IN  /\ Len(calls) \in {1, 2}
        /\ calls[1].fn = "IOConnectCallStructMethod"
        /\ calls[1].req.data8 = SMC_CMD_READ_KEYINFO
        /\ calls[1].req.key = k
        /\ Len(calls) = 2 =>
             /\ calls[1].ok
             /\ calls[2].fn = "IOConnectCallStructMethod"
             /\ calls[2].req.data8 =
                  (IF op.name = "smc_read_key" THEN SMC_CMD_READ_BYTES
                                               ELSE SMC_CMD_WRITE_BYTES)
             /\ calls[2].req.key = k
             /\ calls[2].req.keyInfo.dataSize = op.declared
             /\ calls[2].req.keyInfo = smc[k].info

\* C13 witness: a read straight after a write of the same key, the controller
\* having changed the key's declared size in between
C13_Witness ==
  /\ Returned("smc_read_key")
  /\ lastWrite.name = "smc_write_key"
  /\ lastWrite.key = op.key
  /\ lastWrite.declared = 1
  /\ op.declared = SMC_BYTES
  /\ Len(calls) = 2
  /\ calls[2].req.keyInfo.dataSize = SMC_BYTES

\* smc_tool.c's SMCReadKey fetches the KeyInfo at every run too, and asks for
\* the size it has just been given
ToolReadFetchesInfo ==
  (Returned("main") /\ op.mode = "r" /\ SmcCalls # {}) =>
    /\ Cardinality(SmcCallsOf(SMC_CMD_READ_KEYINFO)) = 1
    /\ \A i \in SmcCallsOf(SMC_CMD_READ_BYTES) :
         /\ \E j \in SmcCallsOf(SMC_CMD_READ_KEYINFO) : j < i /\ calls[j].ok
         /\ calls[i].req.key = _strtoul(Strncpy4(op.key), 4, 16)
         /\ calls[i].req.keyInfo.dataSize = op.declared

\* C14: the write-bytes request of a write of n caller bytes has a 32-byte
\* payload whose first min(n, 32) bytes are the caller's and whose other bytes
\* are zero, carries the key's declared size from the info phase, and is
\* issued exactly once per successful write.
C14_WritePayload ==
  Returned("smc_write_key") =>
    LET n == Min(op.size, SMC_BYTES)
    IN  /\ \A i \in SmcCallsOf(SMC_CMD_WRITE_BYTES) :
             /\ Len(calls[i].req.bytes) = SMC_BYTES
             /\ SubSeq(calls[i].req.bytes, 1, n) = SubSeq(op.bytes, 1, n)
             /\ SubSeq(calls[i].req.bytes, n + 1, SMC_BYTES) = Zeros(SMC_BYTES - n)
             /\ calls[i].req.key = KeyId(op.key)
             /\ calls[i].req.keyInfo.dataSize = op.declared
        /\ Cardinality(SmcCallsOf(SMC_CMD_WRITE_BYTES)) <= 1
        /\ op.ret = 0 =>
             /\ Cardinality(SmcCallsOf(SMC_CMD_WRITE_BYTES)) = 1
             /\ SmcOk(SMC_CMD_WRITE_BYTES)

\* C14 witness: the successful write of one byte to a key declared one byte,
\* payload 0xA1 followed by 31 zero bytes
C14_Witness ==
  /\ Returned("smc_write_key")
  /\ op.ret = 0
  /\ op.size = 1
  /\ op.declared = 1
  /\ \E i \in SmcCallsOf(SMC_CMD_WRITE_BYTES) :
       calls[i].req.bytes = <<161>> \o Zeros(SMC_BYTES - 1)

\* a write of more than 32 bytes sends the first 32 of them
WriteClampsPayload ==
  (Returned("smc_write_key") /\ op.size > SMC_BYTES) =>
    \A i \in SmcCallsOf(SMC_CMD_WRITE_BYTES) :
      calls[i].req.bytes = SubSeq(op.bytes, 1, SMC_BYTES)

\* the positions in calls of the calls of the IOKit function fn
CallsOf(fn) == {i \in 1..Len(calls) : calls[i].fn = fn}

\* the run's IOServiceOpen gave a connection
ToolOpened == \E i \in CallsOf("IOServiceOpen") : calls[i].ok

\* C15: in the tool's main a successful SMCOpen is followed by exactly one
\* SMCClose before the process returns, whether the read or write succeeded
\* or failed; no SMCClose and no transport call is issued when SMCOpen failed
\* or the arguments were rejected with the usage message.
C15_ToolOpenClosePaired ==
  Returned("main") =>
    /\ ToolOpened =>
         /\ Cardinality(CallsOf("IOServiceOpen")) = 1
         /\ Cardinality(CallsOf("IOServiceClose")) = 1
         /\ calls[Len(calls)].fn = "IOServiceClose"
         /\ calls[Len(calls)].obj = g_conn
         /\ calls[Len(calls)].ok
         /\ kernel.released = <<1>>
         /\ \A i \in SmcCalls : \E j \in CallsOf("IOServiceOpen") : j < i
    /\ ~ToolOpened =>
         /\ CallsOf("IOServiceClose") = {}
         /\ SmcCalls = {}
         /\ kernel.released = <<>>
         /\ op.ret = 1
    /\ (printed = <<Line("usage")>>) => calls = <<>>

\* C15 witness: the connection was opened, the read failed, and the
\* connection was closed once before main returned 1
C15_Witness ==
  /\ Returned("main")
  /\ op.mode = "r"
  /\ ToolOpened
  /\ op.ret = 1
  /\ printed = <<Line("no data")>>
  /\ Cardinality(CallsOf("IOServiceClose")) = 1

\* the connections IOServiceOpen made and IOServiceClose has not released
OpenConnections == {h \in 1..Len(kernel.released) : kernel.released[h] = 0}

\* C16: after any sequence of smc_open and smc_close calls at most one
\* connection is open and unreleased, and every open connection is the one
\* g_smc_conn names, so that a later smc_close releases it.
C16_AtMostOneOpenConnection ==
  /\ Cardinality(OpenConnections) <= 1
  /\ \A h \in OpenConnections : g_smc_conn = h

\* what does hold: the handle is zero or names the connection made last, and
\* that one is open
HandleNamesLastConnection ==
  g_smc_conn # 0 => (g_smc_conn = Len(kernel.released) /\ g_smc_conn \in OpenConnections)

\* C17: smc_get_bclm writes at most one byte into the caller's single-byte
\* out_percentage, whatever size the controller declares for BCLM.
C17_GetBclmWritesOneByte ==
  Returned("smc_get_bclm") => op.overrun = 0

\* what smc_get_bclm does write on success: min(declared size, 32) bytes,
\* the first of them into *out_percentage
GetBclmWritesDeclaredSize ==
  (Returned("smc_get_bclm") /\ op.ret = 0) =>
    /\ out_size = Min(op.declared, SMC_BYTES)
    /\ op.overrun = (IF out_size > 1 THEN out_size - 1 ELSE 0)
    /\ out_bytes = (IF out_size = 0 THEN CallerPercentage
                                    ELSE <<smc[KeyId("BCLM")].bytes[1]>>)

\* the calls that use a service object obtained from discovery
ServiceUses == CallsOf("IORegistryEntrySetCFProperty") \cup CallsOf("IOServiceOpen")

\* C18: every service object obtained from discovery is released exactly once
\* before the obtaining function returns, whether the property set or the
\* connection open succeeds or fails; when discovery finds no service, no
\* release and no property-set or open call is issued.
C18_ServiceReleasedOnce ==
  pc = "returned" =>
    /\ \A i \in CallsOf("IOServiceGetMatchingService") :
         IF calls[i].ok
           THEN /\ calls[i].obj # 0
                /\ Len(calls) >= i + 2
                /\ i + 1 \in ServiceUses
                /\ calls[i + 1].obj = calls[i].obj
                /\ calls[i + 2].fn = "IOObjectRelease"
                /\ calls[i + 2].obj = calls[i].obj
                /\ Cardinality({j \in CallsOf("IOObjectRelease") :
                                  calls[j].obj = calls[i].obj}) = 1
           ELSE /\ calls[i].obj = 0
                /\ i < Len(calls) =>
                     (i + 1) \notin (ServiceUses \cup CallsOf("IOObjectRelease"))
    /\ \A j \in ServiceUses \cup CallsOf("IOObjectRelease") :
         /\ calls[j].obj # 0
         /\ \E i \in CallsOf("IOServiceGetMatchingService") :
              i < j /\ calls[i].obj = calls[j].obj
    /\ Cardinality(ServiceUses) <= Cardinality(CallsOf("IOServiceGetMatchingService"))

\* C18 witness: a disable whose first property set was refused, its service
\* released, and whose second found no service
C18_Witness ==
  /\ Returned("smc_disable_charging")
  /\ calls[1].fn = "IOServiceGetMatchingService" /\ calls[1].ok
  /\ calls[2].fn = "IORegistryEntrySetCFProperty" /\ ~calls[2].ok
  /\ calls[3].fn = "IOObjectRelease"
  /\ calls[4].fn = "IOServiceGetMatchingService" /\ ~calls[4].ok
  /\ calls[5].fn = "IOConnectCallStructMethod"

\* smc_open releases the service it found when IOServiceOpen fails
OpenReleasesService ==
  (Returned("smc_open") /\ op.ret = -1 /\ calls[1].ok) =>
    /\ Len(calls) = 3
    /\ calls[3].fn = "IOObjectRelease"
    /\ calls[3].obj = calls[1].obj

\* C19: when smc_read_key fails, in its info phase or in its data phase, the
\* caller's out_bytes and *out_size are as they were before the call; when
\* smc_get_bclm fails, so is *out_percentage.
C19_FailedReadLeavesOutputs ==
  /\ (Returned("smc_read_key") /\ op.ret # 0) =>
       /\ out_bytes = CallerBuf.bytes
       /\ out_size = CallerBuf.size
       /\ op.overrun = 0
  /\ (Returned("smc_get_bclm") /\ op.ret # 0) =>
       /\ out_bytes = CallerPercentage
       /\ op.overrun = 0

\* C19 witness: smc_get_bclm failing in its data phase, on an open connection,
\* with a charge limit stored in the controller
C19_Witness ==
  /\ Returned("smc_get_bclm")
  /\ op.ret = -1
  /\ Len(calls) = 2
  /\ calls[1].ok
  /\ ~calls[2].ok
  /\ smc[KeyId("BCLM")].bytes[1] = 50
  /\ out_bytes = CallerPercentage

====
